---- MODULE Spec2Model ----
(***************************************************************************)
(* Model of build_model_from_contours (src/src/model_from_contours.py):    *)
(* the border filter touches_border, the curve builder add_bezier_spline   *)
(* and the loop that emits one outer spline per top-level contour followed *)
(* by the splines of its holes.                                            *)
(*                                                                         *)
(* Contour indices are 0-based as in the code; TLA+ sequences are 1-based, *)
(* so contour i of the JSON list is contours[i + 1].  A pixel point is a   *)
(* pair <<x, y>>.  World coordinates are floats in the code; they are kept *)
(* here as exact fractions (numerator, denominator).                       *)
(***************************************************************************)
EXTENDS Integers, Sequences, FiniteSets

VARIABLES
    width, height,      \* data["width"], data["height"]
    contours,           \* data["contours"]: sequence of [points, parent]
    scale, bezier_step, \* keyword arguments of build_model_from_contours
    pc,                 \* position in build_model_from_contours
    top_indices,        \* the list built at lines 54-57
    ti,                 \* position of the outer loop in top_indices (1-based)
    j,                  \* index of the inner loop over contours (0-based)
    splines,            \* curve_data.splines
    margin,             \* next margin handed to touches_border by ProbeMargin
    touched,            \* touched[m + 1][i + 1]: touches_border(contour i, margin m)
    eligible,           \* eligible[m + 1]: top-level list computed with margin m
    fwd, rev            \* splines built from one contour, reverse = False / True

vars == <<width, height, contours, scale, bezier_step, pc, top_indices, ti, j,
          splines, margin, touched, eligible, fwd, rev>>

(***************************************************************************)
(* Bounds of the model.                                                    *)
(***************************************************************************)
MaxContours == 2    \* contours per contour set in Spec
MaxStep == 3        \* largest bezier_step
MaxMargin == 4      \* largest margin probed in SpecBorder
MaxCoord == 3       \* largest pixel coordinate of the free points in SpecBorder
MaxPts == 2         \* most free points of a contour in SpecBorder
MaxLen == 7         \* longest contour handed to the curve builder in SpecCurve

(***************************************************************************)
(* Program constants.                                                      *)
(***************************************************************************)
DefaultMargin == 2  \* touches_border(cnt, w, h, margin: int = 2)
NoParent == -1      \* c["parent"] == -1
MinPoints == 3      \* if len(points) < 3: return

(***************************************************************************)
(* Contours the inputs are drawn from (pixel coordinates, 10 x 10 image).  *)
(***************************************************************************)
Square == << <<3, 3>>, <<3, 6>>, <<6, 6>>, <<6, 3>> >>
EdgeSquare == << <<2, 2>>, <<2, 7>>, <<7, 7>>, <<7, 2>> >>
Hexagon == << <<4, 3>>, <<6, 3>>, <<7, 5>>, <<6, 7>>, <<4, 7>>, <<3, 5>> >>
Pentagon == << <<3, 4>>, <<5, 3>>, <<7, 4>>, <<6, 7>>, <<4, 7>> >>
Sliver == << <<4, 4>>, <<5, 5>> >>

Shapes == {Square, EdgeSquare, Hexagon, Sliver}

\* A path of n distinct points.
Ramp(n) == [k \in 1..n |-> <<k + 2, ((k * k) % 5) + 3>>]

(***************************************************************************)
(* touches_border, lines 46-51: the loop over cnt["points"] with its early *)
(* return.                                                                 *)
(***************************************************************************)
\* Variant with strict comparisons: a point on the margin line does not count.
NearBorderStrict(p, w, h, m) ==
    p[1] < m \/ p[2] < m \/ p[1] > w - m \/ p[2] > h - m

\* Variant that only sees points exactly on the margin line.
NearBorderExact(p, w, h, m) ==
    p[1] = m \/ p[2] = m \/ p[1] = w - m \/ p[2] = h - m

\* line 49
NearBorder(p, w, h, m) ==
    p[1] <= m \/ p[2] <= m \/ p[1] >= w - m \/ p[2] >= h - m

RECURSIVE touches_border_from(_, _, _, _, _)
touches_border_from(pts, k, w, h, m) ==
    IF k > Len(pts) THEN FALSE
    ELSE IF NearBorder(pts[k], w, h, m) THEN TRUE
    ELSE touches_border_from(pts, k + 1, w, h, m)

touches_border(cnt, w, h, m) == touches_border_from(cnt.points, 1, w, h, m)

(***************************************************************************)
(* The list comprehension of lines 54-57, with the margin as a parameter;  *)
(* the code calls touches_border without one, i.e. with DefaultMargin.     *)
(***************************************************************************)
RECURSIVE TopIndicesFrom(_, _, _, _, _)
TopIndicesFrom(cs, i, w, h, m) ==
    IF i >= Len(cs) THEN << >>
    ELSE IF cs[i + 1].parent = NoParent /\ ~touches_border(cs[i + 1], w, h, m)
         THEN << i >> \o TopIndicesFrom(cs, i + 1, w, h, m)
         ELSE TopIndicesFrom(cs, i + 1, w, h, m)

TopIndices(cs, w, h, m) == TopIndicesFrom(cs, 0, w, h, m)

(***************************************************************************)
(* add_bezier_spline, lines 64-87.                                         *)
(***************************************************************************)
Reversed(pts) == [k \in 1..Len(pts) |-> pts[Len(pts) - k + 1]]

\* points[::step] for step > 1: indices 0, step, 2 step, ...
Slice(pts, step) ==
    IF Len(pts) = 0 THEN << >>
    ELSE [k \in 1..(((Len(pts) - 1) \div step) + 1) |-> pts[(k - 1) * step + 1]]

\* Subsample first, then reverse: not what the code does.
PreparePointsSliceFirst(points, reverse, step) ==
    LET p1 == IF step > 1 THEN Slice(points, step) ELSE points
    IN  IF reverse THEN Reversed(p1) ELSE p1

\* lines 66-71
PreparePoints(points, reverse, step) ==
    LET p1 == IF reverse THEN Reversed(points) ELSE points
    IN  IF step > 1 THEN Slice(p1, step) ELSE p1

\* Variant that lets two-point curves through.
IsDegenerateLax(pts) == Len(pts) < MinPoints - 1

\* line 73
IsDegenerate(pts) == Len(pts) < MinPoints

\* lines 80-85: u = x / (width - 1), xw = (u - 0.5) * scale, and
\* v = y / (height - 1), yw = (0.5 - v) * scale, as fractions num / den.
WorldPoint(p) ==
    [xn |-> scale * (2 * p[1] - (width - 1)), xd |-> 2 * (width - 1),
     yn |-> scale * ((height - 1) - 2 * p[2]), yd |-> 2 * (height - 1)]

\* The division of line 80 or 81 raises ZeroDivisionError.
DivisionRaises == width - 1 = 0 \/ height - 1 = 0

\* The spline appended by lines 76-87.  role and index record which call
\* built it (the code stores neither); index is the contour's position.
NewSpline(pts, role, index) ==
    [points |-> [k \in 1..Len(pts) |-> WorldPoint(pts[k])],
     use_cyclic_u |-> TRUE, role |-> role, index |-> index]

\* The spline left behind when line 80 raises: created and sized by lines
\* 76-77, no coordinate written, not closed.
PartialSpline(pts, role, index) ==
    [points |-> [k \in 1..Len(pts) |-> "unset"],
     use_cyclic_u |-> FALSE, role |-> role, index |-> index]

add_bezier_spline(spl, points, reverse, step, role, index) ==
    LET pts == PreparePoints(points, reverse, step)
    IN  IF IsDegenerate(pts) THEN spl
        ELSE IF DivisionRaises THEN Append(spl, PartialSpline(pts, role, index))
        ELSE Append(spl, NewSpline(pts, role, index))

Raises(points, reverse, step) ==
    ~IsDegenerate(PreparePoints(points, reverse, step)) /\ DivisionRaises

(***************************************************************************)
(* Inputs.                                                                 *)
(***************************************************************************)
\* width, height, scale, bezier_step: the valid configurations, and one
\* configuration for each way of being invalid.
Configs ==
    {<<10, 10, 2, s>> : s \in 1..MaxStep}
    \cup {<<1, 10, 2, 1>>, <<10, 1, 2, 1>>, <<10, 10, 0, 1>>, <<10, 10, -1, 1>>,
          <<10, 10, 2, 0>>, <<10, 10, 2, -1>>}

\* Parent indices include NoParent, every index of the list (so cycles and
\* deeper nesting) and one index past its end.
ContourRecords(n) == [points : Shapes, parent : (-1)..n]

ContourSets == UNION {[1..n -> ContourRecords(n)] : n \in 0..MaxContours}

(***************************************************************************)
(* build_model_from_contours                                               *)
(***************************************************************************)
Init ==
    /\ \E cfg \in Configs :
         /\ width = cfg[1]
         /\ height = cfg[2]
         /\ scale = cfg[3]
         /\ bezier_step = cfg[4]
    /\ contours \in ContourSets
    /\ pc = "load"
    /\ top_indices = << >>
    /\ ti = 1
    /\ j = 0
    /\ splines = << >>
    /\ margin = DefaultMargin
    /\ touched = << >>
    /\ eligible = << >>
    /\ fwd = "unset"
    /\ rev = "unset"

\* lines 34-62: read the data, clear the scene, select the top-level
\* contours, create the curve data.
Filter ==
    /\ pc = "load"
    /\ top_indices' = TopIndices(contours, width, height, DefaultMargin)
    /\ ti' = 1
    /\ pc' = IF top_indices' = << >> THEN "extrude" ELSE "outer"
    /\ UNCHANGED <<width, height, contours, scale, bezier_step, j, splines,
                   margin, touched, eligible, fwd, rev>>

\* lines 90-92: one iteration of the outer loop up to the inner loop.
Outer ==
    /\ pc = "outer"
    /\ ti <= Len(top_indices)
    /\ LET i == top_indices[ti]
           pts == contours[i + 1].points
       IN  /\ splines' = add_bezier_spline(splines, pts, FALSE, bezier_step, "outer", i)
           /\ pc' = IF Raises(pts, FALSE, bezier_step) THEN "ZeroDivisionError"
                    ELSE "holes"
    /\ j' = 0
    /\ UNCHANGED <<width, height, contours, scale, bezier_step, top_indices, ti,
                   margin, touched, eligible, fwd, rev>>

\* Variant that applies the border filter to holes as well.
IsHoleTestedForBorder(c, i) ==
    c.parent = i /\ ~touches_border(c, width, height, DefaultMargin)

\* line 95
IsHoleOf(c, i) == c.parent = i

\* lines 94-96: one iteration of the inner loop; after the last one the
\* outer loop moves on, and after its last iteration the function goes on
\* to line 98.
Hole ==
    /\ pc = "holes"
    /\ j < Len(contours)
    /\ LET i == top_indices[ti]
           c == contours[j + 1]
           raises == IsHoleOf(c, i) /\ Raises(c.points, TRUE, bezier_step)
       IN  /\ splines' = IF IsHoleOf(c, i)
                         THEN add_bezier_spline(splines, c.points, TRUE, bezier_step, "hole", j)
                         ELSE splines
           /\ j' = j + 1
           /\ IF raises
              THEN pc' = "ZeroDivisionError" /\ ti' = ti
              ELSE IF j + 1 < Len(contours)
              THEN pc' = "holes" /\ ti' = ti
              ELSE /\ ti' = ti + 1
                   /\ pc' = IF ti + 1 <= Len(top_indices) THEN "outer" ELSE "extrude"
    /\ UNCHANGED <<width, height, contours, scale, bezier_step, top_indices,
                   margin, touched, eligible, fwd, rev>>

\* lines 98-109: link the curve object, extrude, convert to a mesh, shade.
Extrude ==
    /\ pc = "extrude"
    /\ pc' = "export"
    /\ UNCHANGED <<width, height, contours, scale, bezier_step, top_indices, ti, j,
                   splines, margin, touched, eligible, fwd, rev>>

\* line 112: export the STL.
Export ==
    /\ pc = "export"
    /\ pc' = "done"
    /\ UNCHANGED <<width, height, contours, scale, bezier_step, top_indices, ti, j,
                   splines, margin, touched, eligible, fwd, rev>>

Next == Filter \/ Outer \/ Hole \/ Extrude \/ Export

Spec == Init /\ [][Next]_vars

(***************************************************************************)
(* The border filter on its own: touches_border and the top-level          *)
(* selection are applied to one contour set with every margin from 0 up,   *)
(* beside the selection the program itself makes (Filter).                 *)
(***************************************************************************)
FreePoints == {<<x, y>> : x \in 0..MaxCoord, y \in 0..MaxCoord}

FreeContours == UNION {[1..n -> FreePoints] : n \in 0..MaxPts}

BorderDims == {MaxCoord + 1, 2 * MaxCoord + 1}

InitBorder ==
    /\ \/ /\ width \in BorderDims
          /\ height \in BorderDims
          /\ \E pts \in FreeContours, par \in {NoParent, 0} :
               contours = << [points |-> pts, parent |-> par] >>
       \/ /\ width = 10
          /\ height = 10
          /\ contours \in ContourSets
    /\ scale = 2
    /\ bezier_step = 1
    /\ pc = "load"
    /\ top_indices = << >>
    /\ ti = 1
    /\ j = 0
    /\ splines = << >>
    /\ margin = 0
    /\ touched = << >>
    /\ eligible = << >>
    /\ fwd = "unset"
    /\ rev = "unset"

\* touches_border (lines 46-51) on every contour, and the selection of
\* lines 54-57, with the next margin.
ProbeMargin ==
    /\ margin <= MaxMargin
    /\ touched' = Append(touched,
                         [i \in 1..Len(contours) |->
                             touches_border(contours[i], width, height, margin)])
    /\ eligible' = Append(eligible, TopIndices(contours, width, height, margin))
    /\ margin' = margin + 1
    /\ UNCHANGED <<width, height, contours, scale, bezier_step, pc, top_indices,
                   ti, j, splines, fwd, rev>>

NextBorder == ProbeMargin \/ Filter

SpecBorder == InitBorder /\ [][NextBorder]_vars

(***************************************************************************)
(* The curve builder on its own: add_bezier_spline is applied to the same  *)
(* contour once with reverse = False and once with reverse = True, each    *)
(* time on an empty curve.  width and height are those of an image in      *)
(* which a contour can pass the border filter.                             *)
(***************************************************************************)
CurveConfigs == {cfg \in Configs : cfg[1] > 1 /\ cfg[2] > 1}

CurveInputs == {Ramp(n) : n \in 0..MaxLen} \cup Shapes \cup {Pentagon}

InitCurve ==
    /\ \E cfg \in CurveConfigs :
         /\ width = cfg[1]
         /\ height = cfg[2]
         /\ scale = cfg[3]
         /\ bezier_step = cfg[4]
    /\ \E pts \in CurveInputs : contours = << [points |-> pts, parent |-> NoParent] >>
    /\ pc = "curve"
    /\ top_indices = << >>
    /\ ti = 1
    /\ j = 0
    /\ splines = << >>
    /\ margin = DefaultMargin
    /\ touched = << >>
    /\ eligible = << >>
    /\ fwd = "unset"
    /\ rev = "unset"

\* add_bezier_spline(points, reverse=False, step=bezier_step), as at line 92
BuildForward ==
    /\ pc = "curve"
    /\ fwd = "unset"
    /\ fwd' = add_bezier_spline(<< >>, contours[1].points, FALSE, bezier_step, "outer", 0)
    /\ UNCHANGED <<width, height, contours, scale, bezier_step, pc, top_indices,
                   ti, j, splines, margin, touched, eligible, rev>>

\* add_bezier_spline(points, reverse=True, step=bezier_step), as at line 96
BuildReversed ==
    /\ pc = "curve"
    /\ rev = "unset"
    /\ rev' = add_bezier_spline(<< >>, contours[1].points, TRUE, bezier_step, "hole", 0)
    /\ UNCHANGED <<width, height, contours, scale, bezier_step, pc, top_indices,
                   ti, j, splines, margin, touched, eligible, fwd>>

NextCurve == BuildForward \/ BuildReversed

SpecCurve == InitCurve /\ [][NextCurve]_vars

(***************************************************************************)
(* Helpers of the properties.                                              *)
(***************************************************************************)
Range(s) == {s[k] : k \in 1..Len(s)}

Indices == 0..(Len(contours) - 1)

PointsOf(i) == contours[i + 1].points

ParentOf(i) == contours[i + 1].parent

\* Some point of contour i lies within m pixels of the image border.
SomePointNear(i, m) ==
    \E k \in 1..Len(PointsOf(i)) :
        LET x == PointsOf(i)[k][1]
            y == PointsOf(i)[k][2]
        IN  x <= m \/ y <= m \/ x >= width - m \/ y >= height - m

(***************************************************************************)
(* C1: touches_border(contour, width, height, margin) is true exactly when *)
(* some point of the contour has x <= margin, y <= margin,                 *)
(* x >= width - margin or y >= height - margin (all inclusive), false      *)
(* otherwise, also for a contour without points; and the top-level         *)
(* selection of the program uses margin 2.                                 *)
(***************************************************************************)
C1_TouchesBorderIffSomePointNear ==
    /\ \A m \in 0..(Len(touched) - 1) : \A i \in Indices :
           touched[m + 1][i + 1] = SomePointNear(i, m)
    /\ pc # "load" =>
           \A i \in Indices :
               i \in Range(top_indices) <=> (ParentOf(i) = -1 /\ ~SomePointNear(i, 2))

\* A two-point contour whose first point is clear of the border and whose
\* second lies exactly on the margin line and nowhere beyond it: reported
\* as touching.
C1_Witness ==
    \E m \in 1..(Len(touched) - 1) :
        /\ Len(contours) = 1
        /\ Len(PointsOf(0)) = 2
        /\ ~NearBorder(PointsOf(0)[1], width, height, m)
        /\ ~NearBorderStrict(PointsOf(0)[2], width, height, m)
        /\ touched[m + 1][1] = TRUE
        /\ pc # "load"

(***************************************************************************)
(* C9: border-filter monotonicity: for margins m1 <= m2 the eligible       *)
(* top-level contours computed with m2 are among those computed with m1.   *)
(***************************************************************************)
C9_EligibleShrinksWithMargin ==
    \A m1 \in 0..(Len(eligible) - 1) : \A m2 \in m1..(Len(eligible) - 1) :
        Range(eligible[m2 + 1]) \subseteq Range(eligible[m1 + 1])

\* Every margin has been probed, and a contour eligible with the smallest
\* margin is no longer eligible with the largest.
C9_Witness ==
    /\ Len(eligible) = MaxMargin + 1
    /\ Range(eligible[1]) # {}
    /\ Range(eligible[MaxMargin + 1]) # Range(eligible[1])
    /\ Range(eligible[2]) = Range(eligible[1])

(***************************************************************************)
(* C2 as claimed: the curve built with reverse = true is the exact reverse *)
(* of the curve built from the same contour and step with reverse = false. *)
(***************************************************************************)
C2_ReversedIsReverseOfForward ==
    (fwd # "unset" /\ rev # "unset") =>
        /\ Len(rev) = Len(fwd)
        /\ Len(rev) = 1 => rev[1].points = Reversed(fwd[1].points)

\* The stride the slicing uses: bezier_step when it is above 1, else 1.
Stride == IF bezier_step > 1 THEN bezier_step ELSE 1

(***************************************************************************)
(* C2 as amended: with n points and stride k, the reversed curve holds the *)
(* points n, n - k, n - 2k, ... of the contour (every k-th point of the    *)
(* reversed order, starting at the last point) and the non-reversed curve  *)
(* the points 1, 1 + k, ...; both have the same number of points, and the  *)
(* reversed curve is the exact reverse of the non-reversed one whenever k  *)
(* divides n - 1, in particular for k = 1.                                 *)
(***************************************************************************)
C2_ReversedIsSliceOfReverse ==
    (fwd # "unset" /\ rev # "unset") =>
        LET P == contours[1].points
            n == Len(P)
            k == Stride
            cnt == (n + k - 1) \div k
        IN  /\ Len(rev) = Len(fwd)
            /\ Len(rev) = (IF cnt >= 3 THEN 1 ELSE 0)
            /\ Len(rev) = 1 =>
                 /\ Len(rev[1].points) = cnt
                 /\ Len(fwd[1].points) = cnt
                 /\ \A p \in 1..cnt :
                      /\ rev[1].points[p] = WorldPoint(P[n - (p - 1) * k])
                      /\ fwd[1].points[p] = WorldPoint(P[1 + (p - 1) * k])
                 /\ ((n - 1) % k = 0) => rev[1].points = Reversed(fwd[1].points)

\* Both curves are built, the stride does not divide n - 1, and the
\* reversed curve is not the reverse of the non-reversed one.
C2_Witness ==
    /\ fwd # "unset" /\ rev # "unset"
    /\ Len(fwd) = 1 /\ Len(rev) = 1
    /\ bezier_step > 1
    /\ (Len(contours[1].points) - 1) % bezier_step # 0
    /\ rev[1].points # Reversed(fwd[1].points)

\* Contour i is an eligible top-level contour: no parent, and no point
\* within 2 pixels of the border.
Eligible(i) == ParentOf(i) = -1 /\ ~SomePointNear(i, 2)

\* Number of points of contour i after subsampling.
Count(i) == (Len(PointsOf(i)) + Stride - 1) \div Stride

HasCurve(role, i) ==
    \E k \in 1..Len(splines) : splines[k].role = role /\ splines[k].index = i

\* Lines 90-96 are behind: the curve group is complete.
Assembled == pc \in {"extrude", "export", "done"}

(***************************************************************************)
(* C7: every curve of the group has at least 3 points; a contour with      *)
(* fewer than 3 points after subsampling adds no curve, not even a partly  *)
(* filled one, and the run goes on with the remaining contours instead of  *)
(* aborting.                                                               *)
(***************************************************************************)
C7_EveryCurveHasThreePoints ==
    /\ pc # "ZeroDivisionError"
    /\ \A k \in 1..Len(splines) :
           /\ Len(splines[k].points) >= 3
           /\ splines[k].use_cyclic_u
           /\ Count(splines[k].index) >= 3
    /\ Assembled =>
           \A i \in Indices : (Eligible(i) /\ Count(i) >= 3) => HasCurve("outer", i)

\* A finished run in which an eligible contour was dropped as degenerate
\* because of the subsampling and a later eligible contour got its curve.
C7_Witness ==
    /\ pc = "done"
    /\ bezier_step > 1
    /\ \E i \in Indices : \E i2 \in Indices :
           /\ i < i2
           /\ Eligible(i) /\ Len(PointsOf(i)) >= 3 /\ Count(i) < 3
           /\ ~HasCurve("outer", i)
           /\ Eligible(i2) /\ HasCurve("outer", i2)

(***************************************************************************)
(* C10: a contour j with a parent yields a hole curve exactly when its     *)
(* parent is an eligible top-level contour and j keeps at least 3 points   *)
(* after subsampling; whether j itself touches the border plays no part.   *)
(***************************************************************************)
C10_HoleFollowsParentOnly ==
    /\ \A k \in 1..Len(splines) :
           splines[k].role = "hole" =>
               /\ ParentOf(splines[k].index) \in Indices
               /\ Eligible(ParentOf(splines[k].index))
               /\ \A q \in 1..Len(splines) :
                      (splines[q].role = "hole" /\ splines[q].index = splines[k].index)
                          => q = k
    /\ Assembled =>
           \A jj \in Indices :
               HasCurve("hole", jj) <=>
                   /\ ParentOf(jj) \in Indices
                   /\ Eligible(ParentOf(jj))
                   /\ Count(jj) >= 3

\* A finished run whose group holds the curve of a hole that touches the
\* border.
C10_Witness ==
    /\ pc = "done"
    /\ \E jj \in Indices :
           /\ ParentOf(jj) # -1
           /\ SomePointNear(jj, 2)
           /\ HasCurve("hole", jj)

(***************************************************************************)
(* C5 as claimed: every hole curve of the group comes after the outer      *)
(* curve of its parent, with only holes of the same parent in between; no  *)
(* hole curve is in the group without its outer curve.                     *)
(***************************************************************************)
C5_HoleComesWithItsOuter ==
    \A k \in 1..Len(splines) :
        splines[k].role = "hole" =>
            \E q \in 1..(k - 1) :
                /\ splines[q].role = "outer"
                /\ splines[q].index = ParentOf(splines[k].index)
                /\ \A r \in (q + 1)..(k - 1) :
                       /\ splines[r].role = "hole"
                       /\ ParentOf(splines[r].index) = splines[q].index

(***************************************************************************)
(* C6 as claimed: outer curves are those of eligible top-level contours,   *)
(* in increasing index order; each outer curve is followed, up to the next *)
(* outer curve, by the hole curves of exactly its children (those that     *)
(* keep 3 points), in increasing index order; and with one eligible        *)
(* top-level contour and one non-degenerate child the finished group is    *)
(* the outer curve in original point order, then the hole curve in         *)
(* reversed point order.                                                   *)
(***************************************************************************)
HolesAfter(q) ==
    {k \in (q + 1)..Len(splines) :
        \A r \in (q + 1)..k : splines[r].role = "hole"}

C6_GenerationOrder ==
    /\ \A q \in 1..Len(splines) : \A k \in 1..Len(splines) :
           (q < k /\ splines[q].role = "outer" /\ splines[k].role = "outer")
               => splines[q].index < splines[k].index
    /\ \A q \in 1..Len(splines) :
           splines[q].role = "outer" =>
               /\ Eligible(splines[q].index)
               /\ \A k \in HolesAfter(q) :
                      ParentOf(splines[k].index) = splines[q].index
               /\ \A k1 \in HolesAfter(q) : \A k2 \in HolesAfter(q) :
                      k1 < k2 => splines[k1].index < splines[k2].index
               /\ (Assembled \/ q < Len(splines) - Cardinality(HolesAfter(q))) =>
                      \A jj \in Indices :
                          (ParentOf(jj) = splines[q].index /\ Count(jj) >= 3)
                              => \E k \in HolesAfter(q) : splines[k].index = jj
    /\ (/\ Assembled
        /\ Len(contours) = 2
        /\ Eligible(0)
        /\ ParentOf(1) = 0
        /\ Count(1) >= 3) =>
           /\ Len(splines) = 2
           /\ splines[1].role = "outer" /\ splines[1].index = 0
           /\ splines[2].role = "hole" /\ splines[2].index = 1
           /\ \A p \in 1..Len(splines[1].points) :
                  splines[1].points[p] = WorldPoint(PointsOf(0)[1 + (p - 1) * Stride])
           /\ \A p \in 1..Len(splines[2].points) :
                  splines[2].points[p]
                      = WorldPoint(PointsOf(1)[Len(PointsOf(1)) - (p - 1) * Stride])

(***************************************************************************)
(* C8 as claimed: the winding (sign of the signed area of the point cycle) *)
(* of every hole curve is opposite to that of the outer curve of its       *)
(* parent, whenever both are in the group.                                 *)
(***************************************************************************)
Sign(n) == IF n > 0 THEN 1 ELSE IF n < 0 THEN -1 ELSE 0

\* Twice the signed area of the closed polygon, times the denominators.
RECURSIVE CrossSum(_, _)
CrossSum(pts, k) ==
    IF k > Len(pts) THEN 0
    ELSE LET a == pts[k]
             b == pts[IF k = Len(pts) THEN 1 ELSE k + 1]
         IN  (a.xn * b.yn - b.xn * a.yn) + CrossSum(pts, k + 1)

Winding(curve) ==
    Sign(CrossSum(curve.points, 1))
        * Sign(curve.points[1].xd) * Sign(curve.points[1].yd)

C8_HoleWindsAgainstOuter ==
    \A k \in 1..Len(splines) : \A q \in 1..Len(splines) :
        (/\ splines[k].role = "hole"
         /\ splines[q].role = "outer"
         /\ splines[q].index = ParentOf(splines[k].index)) =>
            /\ Winding(splines[k]) # 0
            /\ Winding(splines[k]) = -Winding(splines[q])

(***************************************************************************)
(* C3 as claimed: with a malformed hierarchy (a parent index out of range, *)
(* a cycle, or a parent that has a parent) the run aborts before any curve *)
(* is added: no curve is built and the run does not complete.              *)
(***************************************************************************)
MalformedHierarchy ==
    \E i \in Indices :
        /\ ParentOf(i) # -1
        /\ \/ ParentOf(i) \notin Indices
           \/ ParentOf(ParentOf(i)) # -1

C3_MalformedHierarchyAborts ==
    MalformedHierarchy => (splines = << >> /\ ~Assembled)

(***************************************************************************)
(* C4 as claimed: with width <= 1, height <= 1, scale <= 0 or step <= 0    *)
(* the run is rejected before processing begins: nothing is filtered, no   *)
(* curve is added, extrusion and export are not reached.                   *)
(***************************************************************************)
InvalidConfig == width <= 1 \/ height <= 1 \/ scale <= 0 \/ bezier_step <= 0

C4_InvalidConfigRejected ==
    InvalidConfig => (pc = "load" /\ splines = << >>)

====
